---------------------------- MODULE Spec2Model ----------------------------
(***************************************************************************)
(* Career-Copilot: the skill matcher (analysis/resume_analyzer.py), the    *)
(* memoized vocabulary, the per-user write-through, the gap query and the  *)
(* parallel roadmap fan-out (ai/generate_roadmap.py).                      *)
(*                                                                         *)
(* Scores are cosine similarities in hundredths (1.0 is 100), rounded      *)
(* towards zero; an undefined score (0/0) is the value NaN.  Texts are     *)
(* sequences of one-character strings.  Embedding vectors have Dim         *)
(* integer components.                                                     *)
(***************************************************************************)
EXTENDS Integers, Sequences, FiniteSets, TLC

VARIABLES
    skillsTable,   \* rows of the skills table: [skill_id, name, embedding]
    cache,         \* lru_cache of get_skills_with_embeddings: [full, rows, fetch]
    fetches,       \* SELECTs of the skills table issued by get_skills_with_embeddings
    call,          \* arguments of the extract_skills_from_text call
    outcome,       \* what that call did: returned list or raised error
    pc,            \* per caller thread: where it is in get_skills_with_embeddings()
    local,         \* per caller thread: the list its own function call built
    got,           \* per caller thread: the fetch whose list it was handed
    userSkills,    \* committed user_skills table: user_id -> set of skill ids
    tx,            \* the open transaction of save_user_skills
    lastSave,      \* the last finished save_user_skills call
    observed,      \* what the last concurrent reader saw
    rm,            \* the generate_roadmap call: futures and collected results
    jobs,          \* jobs table: job_id -> title
    jobSkills,     \* job_skills table: set of <<job_id, skill_id>>
    gapCall,       \* arguments of the compute_gap call
    gapResult      \* what compute_gap returned

matchVars == <<skillsTable, cache, fetches, call, outcome>>
threadVars == <<pc, local, got>>
saveVars == <<userSkills, tx, lastSave, observed>>
gapVars == <<jobs, jobSkills, gapCall, gapResult>>

vars == <<skillsTable, cache, fetches, call, outcome, pc, local, got,
          userSkills, tx, lastSave, observed, rm, jobs, jobSkills,
          gapCall, gapResult>>

-----------------------------------------------------------------------------
(* Bounds of the model *)

MaxChunkTextLen == 5   \* characters of a text in the chunking runs
MaxDocWords == 2       \* words of a document in the matching runs
MaxSkills == 2         \* rows of the skills table
MaxTopK == 2           \* largest top_k tried
MaxChunkSize == 3      \* largest chunk_size tried (chunk_overlap goes one further)

(* Program constants *)

Dim == 2               \* components of an embedding vector
Scale == 100           \* a score of 1.0
DefaultTopK == 20
DefaultThreshold == 35
DefaultChunkSize == 100
DefaultChunkOverlap == 20

-----------------------------------------------------------------------------
(* Sequences *)

Range(s) == {s[i] : i \in DOMAIN s}

SeqsUpTo(S, n) == UNION {[1..k -> S] : k \in 0..n}

Min(a, b) == IF a <= b THEN a ELSE b

\* s[lo..hi] as Python slices words[i:i+n]: clipped to the sequence
Slice(s, lo, hi) == SubSeq(s, lo, Min(hi, Len(s)))

-----------------------------------------------------------------------------
(* Text and chunking: extract_skills_from_text, lines 67-68 *)

\* str.split(): the maximal runs of non-whitespace characters, in order
RECURSIVE SplitAcc(_, _, _)
SplitAcc(t, cur, acc) ==
    IF t = <<>> THEN (IF cur = <<>> THEN acc ELSE Append(acc, cur))
    ELSE IF Head(t) = " "
         THEN SplitAcc(Tail(t), <<>>, IF cur = <<>> THEN acc ELSE Append(acc, cur))
         ELSE SplitAcc(Tail(t), Append(cur, Head(t)), acc)

Split(t) == SplitAcc(t, <<>>, <<>>)

\* " ".join(ws)
RECURSIVE Join(_)
Join(ws) ==
    IF ws = <<>> THEN <<>>
    ELSE IF Len(ws) = 1 THEN Head(ws)
    ELSE Head(ws) \o <<" ">> \o Join(Tail(ws))

\* range(start, stop, step) for step # 0, as the sequence of its values
RECURSIVE PyRange(_, _, _)
PyRange(start, stop, step) ==
    IF (step > 0 /\ start < stop) \/ (step < 0 /\ start > stop)
    THEN <<start>> \o PyRange(start + step, stop, step)
    ELSE <<>>

\* Mutant: only the windows that are full, range(0, len(words) - chunk_size + 1, step)
ChunksFullWindowsOnly(words, chunk_size, step) ==
    LET starts == PyRange(0, Len(words) - chunk_size + 1, step)
    IN  [k \in 1..Len(starts) |->
            Join(Slice(words, starts[k] + 1, starts[k] + chunk_size))]

\* [" ".join(words[i:i + chunk_size]) for i in range(0, len(words), step)]
Chunks(words, chunk_size, step) ==
    LET starts == PyRange(0, Len(words), step)
    IN  [k \in 1..Len(starts) |->
            Join(Slice(words, starts[k] + 1, starts[k] + chunk_size))]

-----------------------------------------------------------------------------
(* Embeddings and cosine similarity: lines 73, 83, 86 *)

NaN == [nan |-> TRUE, v |-> 0]
Num(v) == [nan |-> FALSE, v |-> v]

ZeroVec == [i \in 1..Dim |-> 0]

\* The embedder collaborator: a deterministic function of the text.  Each
\* character is a token with a fixed vector and a text embeds to the sum
\* of its tokens' vectors; "z" and whitespace carry no signal.
TokenVec(ch) ==
    IF ch = "a" THEN [i \in 1..Dim |-> IF i = 1 THEN 1 ELSE 0]
    ELSE IF ch = "b" THEN [i \in 1..Dim |-> IF i = 2 THEN 1 ELSE 0]
    ELSE ZeroVec

RECURSIVE Embed(_)
Embed(t) ==
    IF t = <<>> THEN ZeroVec
    ELSE LET r == Embed(Tail(t)) h == TokenVec(Head(t))
         IN  [i \in 1..Dim |-> h[i] + r[i]]

\* embedder.encode(chunks): one vector per chunk, in order
Encode(chunks) == [k \in DOMAIN chunks |-> Embed(chunks[k])]

RECURSIVE DotFrom(_, _, _)
DotFrom(a, b, i) == IF i > Len(a) THEN 0 ELSE a[i] * b[i] + DotFrom(a, b, i + 1)

Dot(a, b) == DotFrom(a, b, 1)

ISqrt(n) == CHOOSE r \in 0..Scale : r * r <= n /\ n < (r + 1) * (r + 1)

\* np.dot(c, e) / (norm(c) * norm(e)): 0/0 is nan
Cos(c, e) ==
    LET d == Dot(c, e) nn == Dot(c, c) * Dot(e, e)
    IN  IF nn = 0 THEN NaN
        ELSE LET m == ISqrt((d * d * Scale * Scale) \div nn)
             IN  Num(IF d < 0 THEN 0 - m ELSE m)

\* sims: this skill against every chunk embedding
Sims(chunkEmbs, e) == [k \in DOMAIN chunkEmbs |-> Cos(chunkEmbs[k], e)]

\* np.max(sims): nan as soon as one entry is nan
NpMax(sims) ==
    IF \E k \in DOMAIN sims : sims[k].nan THEN NaN
    ELSE Num(CHOOSE m \in {sims[k].v : k \in DOMAIN sims} :
                 \A k \in DOMAIN sims : sims[k].v <= m)

\* Mutant: not (max_sim < sim_threshold), which lets nan through
ReachesThresholdNanBlind(s, thr) == s.nan \/ s.v >= thr

\* max_sim >= sim_threshold: False when max_sim is nan
ReachesThreshold(s, thr) == ~s.nan /\ s.v >= thr

-----------------------------------------------------------------------------
(* The vocabulary load: get_skills_with_embeddings, lines 34-47 *)

NoneArr == [kind |-> "None", val |-> <<>>]

\* json.loads of the stored text: "text" is not JSON at all
JsonLoads(e) ==
    IF e.kind = "array" THEN [ok |-> TRUE, kind |-> "list", val |-> e.val]
    ELSE IF e.kind = "object" THEN [ok |-> TRUE, kind |-> "dict", val |-> <<>>]
    ELSE [ok |-> FALSE, kind |-> "JSONDecodeError", val |-> <<>>]

\* np.array(x): a list becomes a vector, anything else a 0-d object array
NpArray(j) ==
    IF j.kind = "list" THEN [kind |-> "vec", val |-> j.val]
    ELSE [kind |-> "obj", val |-> <<>>]

\* lines 37-43: the emb_array of one row
ParseEmbedding(e) ==
    IF e.kind = "null" THEN NoneArr
    ELSE LET j == JsonLoads(e)
         IN  IF j.ok THEN NpArray(j) ELSE NoneArr

LoadSkills(table) ==
    [i \in DOMAIN table |->
        [skill_id |-> table[i].skill_id, name |-> table[i].name,
         embedding |-> table[i].embedding,
         emb_array |-> ParseEmbedding(table[i].embedding)]]

\* emb is None or emb.size == 0
Skipped(emb) == emb.kind = "None" \/ (emb.kind = "vec" /\ Len(emb.val) = 0)

-----------------------------------------------------------------------------
(* extract_skills_from_text, lines 58-98 *)

Returned(value, chunks, chunked, embedded) ==
    [status |-> "returned", error |-> "", value |-> value,
     chunks |-> chunks, chunked |-> chunked, embedded |-> embedded]

Raised(error, chunks, chunked, embedded) ==
    [status |-> "raised", error |-> error, value |-> <<>>,
     chunks |-> chunks, chunked |-> chunked, embedded |-> embedded]

NotCalled ==
    [status |-> "none", error |-> "", value |-> <<>>,
     chunks |-> <<>>, chunked |-> FALSE, embedded |-> FALSE]

\* skill_similarities[name] = {...}: a dict keeps the position of a key it
\* already holds and appends a new one
DictPut(d, e) ==
    IF \E k \in DOMAIN d : d[k].name = e.name
    THEN [k \in DOMAIN d |-> IF d[k].name = e.name THEN e ELSE d[k]]
    ELSE Append(d, e)

\* lines 77-92: the loop over the vocabulary, from row i on
RECURSIVE Similarities(_, _, _, _, _)
Similarities(rows, i, chunkEmbs, thr, d) ==
    IF i > Len(rows) THEN d
    ELSE LET emb == rows[i].emb_array
         IN  IF Skipped(emb) THEN Similarities(rows, i + 1, chunkEmbs, thr, d)
             ELSE LET max_sim == NpMax(Sims(chunkEmbs, emb.val))
                  IN  Similarities(rows, i + 1, chunkEmbs, thr,
                          IF ReachesThreshold(max_sim, thr)
                          THEN DictPut(d, [name |-> rows[i].name,
                                           skill_id |-> rows[i].skill_id,
                                           max_sim |-> max_sim])
                          ELSE d)

\* sorted(..., key=max_sim, reverse=True): stable, equal keys keep their order
RECURSIVE InsertDesc(_, _)
InsertDesc(sorted, e) ==
    IF sorted = <<>> THEN <<e>>
    ELSE IF Head(sorted).max_sim.v >= e.max_sim.v
         THEN <<Head(sorted)>> \o InsertDesc(Tail(sorted), e)
         ELSE <<e>> \o sorted

\* Mutant: the sort left out
Unsorted(d) == d

RECURSIVE SortDesc(_)
SortDesc(d) ==
    IF d = <<>> THEN <<>>
    ELSE InsertDesc(SortDesc(SubSeq(d, 1, Len(d) - 1)), d[Len(d)])

\* matched[:top_k]
Truncate(m, top_k) ==
    IF top_k >= 0 THEN SubSeq(m, 1, Min(top_k, Len(m)))
    ELSE SubSeq(m, 1, Len(m) + top_k)

\* np.dot(chunk_embeddings, emb) raises for an operand that is no vector of
\* Dim numbers: a 0-d object array (TypeError) or a vector of another length
UnusableOperand(emb) ==
    ~Skipped(emb) /\ (emb.kind = "obj" \/ Len(emb.val) # Dim)

DotError(emb) == IF emb.kind = "obj" THEN "TypeError" ELSE "ValueError"

\* lines 73-98, once the chunks exist
MatchChunks(rows, chunks, top_k, thr) ==
    LET chunkEmbs == Encode(chunks)
        bad == {i \in DOMAIN rows : UnusableOperand(rows[i].emb_array)}
    IN  IF bad # {}
        THEN Raised(DotError(rows[CHOOSE i \in bad : \A j \in bad : i <= j].emb_array),
                    chunks, TRUE, TRUE)
        ELSE LET d == Similarities(rows, 1, chunkEmbs, thr, <<>>)
                 matched == [k \in DOMAIN d |->
                                <<SortDesc(d)[k].skill_id, SortDesc(d)[k].name,
                                  SortDesc(d)[k].max_sim>>]
             IN  Returned(Truncate(matched, top_k), chunks, TRUE, TRUE)

ExtractSkillsFromText(rows, a) ==
    IF a.text = <<>> \/ rows = <<>> THEN Returned(<<>>, <<>>, FALSE, FALSE)
    ELSE LET words == Split(a.text)
             step == a.chunk_size - a.chunk_overlap
         IN  IF step = 0 THEN Raised("ValueError", <<>>, FALSE, FALSE)
             ELSE LET chunks == Chunks(words, a.chunk_size, step)
                  IN  IF Len(chunks) = 0 THEN Returned(<<>>, <<>>, TRUE, FALSE)
                      ELSE MatchChunks(rows, chunks, a.top_k, a.sim_threshold)

\* get_skills_with_embeddings() behind lru_cache, called from one thread:
\* the n-th fetch fills the empty cache, a full cache is handed back as it is
CacheAfterCall(c, table, n) ==
    IF c.full THEN c ELSE [full |-> TRUE, rows |-> LoadSkills(table), fetch |-> n]

EmptyCache == [full |-> FALSE, rows |-> <<>>, fetch |-> 0]

\* One call of extract_skills_from_text with the arguments in `call`
ExtractSkills ==
    /\ outcome.status = "none"
    /\ cache' = CacheAfterCall(cache, skillsTable, fetches + 1)
    /\ fetches' = IF cache.full THEN fetches ELSE fetches + 1
    /\ outcome' = ExtractSkillsFromText(cache'.rows, call)
    /\ UNCHANGED <<skillsTable, call, threadVars, saveVars, rm, gapVars>>

-----------------------------------------------------------------------------
(* The parts of the state a run does not use *)

ThreadsIdle == pc = <<>> /\ local = <<>> /\ got = <<>>

NoTx == [pc |-> "idle", user |-> 0, matches |-> <<>>, i |-> 0, work |-> {}, prior |-> {}]
NoSave == [user |-> 0, prior |-> {}, new |-> {}, result |-> "none"]
NoRead == [user |-> 0, rows |-> {}]

SaveIdle == userSkills = <<>> /\ tx = NoTx /\ lastSave = NoSave /\ observed = NoRead

NoRoadmap == [pc |-> "idle", missing |-> <<>>, planned |-> <<>>, futures |-> <<>>,
              roadmaps |-> <<>>, error |-> ""]

RoadmapIdle == rm = NoRoadmap

NoGapCall == [user_id |-> 0, role_pattern |-> <<>>, top_n |-> 0]
NoGapResult == [status |-> "none", rows |-> <<>>]

GapIdle == jobs = <<>> /\ jobSkills = {} /\ gapCall = NoGapCall /\ gapResult = NoGapResult

MatchIdle ==
    /\ skillsTable = <<>> /\ cache = [full |-> FALSE, rows |-> <<>>, fetch |-> 0]
    /\ fetches = 0
    /\ call = [text |-> <<>>, top_k |-> 0, sim_threshold |-> 0,
               chunk_size |-> 1, chunk_overlap |-> 0]
    /\ outcome = [status |-> "none", error |-> "", value |-> <<>>,
                  chunks |-> <<>>, chunked |-> FALSE, embedded |-> FALSE]

-----------------------------------------------------------------------------
(* Inputs of the matching runs *)

SkillNames == <<"python", "java", "sql", "docker", "git">>

Stored(v) == [kind |-> "array", val |-> v]
StoredNull == [kind |-> "null", val |-> <<>>]
StoredNotJson == [kind |-> "text", val |-> <<>>]
StoredJsonObject == [kind |-> "object", val |-> <<>>]

\* stored embeddings that seed_skills writes (json.dumps of a vector) or NULL
SeededEmbeddings ==
    {StoredNull, Stored(<<0, 0>>), Stored(<<1, 0>>), Stored(<<0, 1>>), Stored(<<1, 1>>)}

\* every kind of stored text the load has to cope with
AnyEmbeddings ==
    {StoredNull, StoredNotJson, StoredJsonObject, Stored(<<>>),
     Stored(<<1, 0>>), Stored(<<0, 1>>)}

\* skills tables of at most MaxSkills rows, ids 1..n, distinct names
Tables(embs) ==
    UNION {{[i \in 1..n |->
                [skill_id |-> i, name |-> SkillNames[i], embedding |-> e[i]]] :
              e \in [1..n -> embs]} : n \in 0..MaxSkills}

ScenarioVocabulary ==
    <<[skill_id |-> 1, name |-> "python", embedding |-> Stored(<<1, 0>>)],
      [skill_id |-> 2, name |-> "java", embedding |-> Stored(<<0, 1>>)]>>

ChunkTexts == SeqsUpTo({"a", "b", " "}, MaxChunkTextLen)

Docs == {Join(ws) : ws \in SeqsUpTo({<<"a">>, <<"b">>, <<"z">>}, MaxDocWords)}

ChunkParams ==
    {<<c, o>> : c \in 1..MaxChunkSize, o \in 0..(MaxChunkSize + 1)}
    \cup {<<DefaultChunkSize, DefaultChunkOverlap>>}

Thresholds == {0, DefaultThreshold, 80}

Args(text, top_k, thr, cp) ==
    [text |-> text, top_k |-> top_k, sim_threshold |-> thr,
     chunk_size |-> cp[1], chunk_overlap |-> cp[2]]

\* Chunking runs: every short text against every chunk_size and overlap
InitChunk ==
    /\ skillsTable \in {<<>>, ScenarioVocabulary}
    /\ cache = EmptyCache
    /\ \E t \in ChunkTexts, cp \in ChunkParams :
           call = Args(t, DefaultTopK, DefaultThreshold, cp)
    /\ outcome = NotCalled
    /\ fetches = 0
    /\ ThreadsIdle /\ SaveIdle /\ RoadmapIdle /\ GapIdle

\* Matching runs: every seeded vocabulary against every short document
InitMatch ==
    /\ skillsTable \in Tables(SeededEmbeddings)
    /\ cache = EmptyCache
    /\ \E t \in Docs, k \in 0..MaxTopK, thr \in Thresholds,
          cp \in {<<1, 0>>, <<DefaultChunkSize, DefaultChunkOverlap>>} :
           call = Args(t, k, thr, cp)
    /\ outcome = NotCalled
    /\ fetches = 0
    /\ ThreadsIdle /\ SaveIdle /\ RoadmapIdle /\ GapIdle

\* Load runs: every kind of stored embedding, default arguments
InitLoad ==
    /\ skillsTable \in Tables(AnyEmbeddings)
    /\ cache = EmptyCache
    /\ \E t \in Docs :
           call = Args(t, DefaultTopK, DefaultThreshold,
                       <<DefaultChunkSize, DefaultChunkOverlap>>)
    /\ outcome = NotCalled
    /\ fetches = 0
    /\ ThreadsIdle /\ SaveIdle /\ RoadmapIdle /\ GapIdle

NextExtract == ExtractSkills

SpecChunk == InitChunk /\ [][NextExtract]_vars
SpecMatch == InitMatch /\ [][NextExtract]_vars
SpecLoad == InitLoad /\ [][NextExtract]_vars

-----------------------------------------------------------------------------
(* get_skills_with_embeddings under concurrent callers: lines 24-47.        *)
(* functools.lru_cache looks the key up, and on a miss calls the function   *)
(* with no lock held, then stores the result unless the key arrived in the  *)
(* meantime; either way the caller is handed the list its own call built.   *)

NumCallers == 3

Callers == 1..NumCallers

NoList == [rows |-> <<>>, fetch |-> 0]

\* The wrapper's lookup: a hit returns the cached list, a miss goes on to
\* call the function
Lookup(t) ==
    /\ pc[t] = "idle"
    /\ IF cache.full
       THEN /\ pc' = [pc EXCEPT ![t] = "done"]
            /\ got' = [got EXCEPT ![t] = cache.fetch]
       ELSE /\ pc' = [pc EXCEPT ![t] = "miss"]
            /\ got' = got
    /\ UNCHANGED <<skillsTable, cache, fetches, call, outcome, local,
                   saveVars, rm, gapVars>>

\* The function body, lines 30-47: one SELECT and the rows made into skills
Fetch(t) ==
    /\ pc[t] = "miss"
    /\ fetches' = fetches + 1
    /\ local' = [local EXCEPT ![t] =
                    [rows |-> LoadSkills(skillsTable), fetch |-> fetches + 1]]
    /\ pc' = [pc EXCEPT ![t] = "fetched"]
    /\ UNCHANGED <<skillsTable, cache, call, outcome, got, saveVars, rm, gapVars>>

\* Back in the wrapper: store unless the key is there by now, return the
\* list this call built
Store(t) ==
    /\ pc[t] = "fetched"
    /\ cache' = IF cache.full THEN cache
                ELSE [full |-> TRUE, rows |-> local[t].rows, fetch |-> local[t].fetch]
    /\ got' = [got EXCEPT ![t] = local[t].fetch]
    /\ pc' = [pc EXCEPT ![t] = "done"]
    /\ UNCHANGED <<skillsTable, fetches, call, outcome, local, saveVars, rm, gapVars>>

InitCache ==
    /\ skillsTable \in Tables(SeededEmbeddings) \ {<<>>}
    /\ cache = EmptyCache
    /\ fetches = 0
    /\ call = Args(<<>>, DefaultTopK, DefaultThreshold,
                   <<DefaultChunkSize, DefaultChunkOverlap>>)
    /\ outcome = NotCalled
    /\ pc = [t \in Callers |-> "idle"]
    /\ local = [t \in Callers |-> NoList]
    /\ got = [t \in Callers |-> 0]
    /\ SaveIdle /\ RoadmapIdle /\ GapIdle

NextCache == \E t \in Callers : Lookup(t) \/ Fetch(t) \/ Store(t)

SpecCache == InitCache /\ [][NextCache]_vars

\* C1: callers that find the cache empty share one fetch: the skills table
\* is read once, and every caller that has returned holds the list of that
\* one fetch.
C1_SingleFetch ==
    /\ fetches <= 1
    /\ \A t \in Callers : pc[t] = "done" => got[t] = 1

-----------------------------------------------------------------------------
(* save_user_skills: lines 100-108.  engine.begin() opens a transaction,    *)
(* commits it when the block ends and rolls it back when a statement        *)
(* raises.  upload_resume is a coroutine that calls it without awaiting, so *)
(* one process runs one save at a time; readers (compute_gap, on its own    *)
(* connection) run beside it.                                               *)

NumUsers == 2
NumSkillIds == 2

Users == 1..NumUsers
SkillIds == 1..NumSkillIds

\* the lists extract_skills_from_text can hand over: no skill id twice
MatchLists == {m \in SeqsUpTo(SkillIds, NumSkillIds) :
                  \A i, j \in DOMAIN m : i # j => m[i] # m[j]}

\* Mutant: every statement commits on its own (engine.connect() with
\* autocommit), so the table follows the statements
TableAfterStatementAutocommit(table, u, rows) == [table EXCEPT ![u] = rows]

\* What other connections see after a statement inside the transaction:
\* the committed table, untouched
TableAfterStatement(table, u, rows) == table

\* with engine.begin() as conn
BeginSave(u, m) ==
    /\ tx.pc = "idle"
    /\ tx' = [pc |-> "begun", user |-> u, matches |-> m, i |-> 1,
              work |-> userSkills[u], prior |-> userSkills[u]]
    /\ lastSave' = NoSave
    /\ observed' = NoRead
    /\ UNCHANGED <<userSkills, matchVars, threadVars, rm, gapVars>>

\* DELETE FROM user_skills WHERE user_id = :u
DeleteOld ==
    /\ tx.pc = "begun"
    /\ tx' = [tx EXCEPT !.pc = "inserting", !.work = {}]
    /\ userSkills' = TableAfterStatement(userSkills, tx.user, {})
    /\ observed' = NoRead
    /\ UNCHANGED <<lastSave, matchVars, threadVars, rm, gapVars>>

\* INSERT INTO user_skills ... for the next match
InsertNext ==
    /\ tx.pc = "inserting"
    /\ tx.i <= Len(tx.matches)
    /\ tx' = [tx EXCEPT !.i = tx.i + 1, !.work = tx.work \cup {tx.matches[tx.i]}]
    /\ userSkills' = TableAfterStatement(userSkills, tx.user,
                                         tx.work \cup {tx.matches[tx.i]})
    /\ observed' = NoRead
    /\ UNCHANGED <<lastSave, matchVars, threadVars, rm, gapVars>>

\* A statement raises (connection lost, constraint violated): the block is
\* left by the exception and the transaction rolls back
StatementFails ==
    /\ tx.pc \in {"begun", "inserting"}
    /\ tx.pc = "inserting" => tx.i <= Len(tx.matches)
    /\ tx' = NoTx
    /\ lastSave' = [user |-> tx.user, prior |-> tx.prior,
                    new |-> Range(tx.matches), result |-> "rolledback"]
    /\ observed' = NoRead
    /\ UNCHANGED <<userSkills, matchVars, threadVars, rm, gapVars>>

\* The block ends: commit
Commit ==
    /\ tx.pc = "inserting"
    /\ tx.i > Len(tx.matches)
    /\ userSkills' = [userSkills EXCEPT ![tx.user] = tx.work]
    /\ tx' = NoTx
    /\ lastSave' = [user |-> tx.user, prior |-> tx.prior,
                    new |-> Range(tx.matches), result |-> "committed"]
    /\ observed' = NoRead
    /\ UNCHANGED <<matchVars, threadVars, rm, gapVars>>

\* A concurrent reader: SELECT us.skill_id FROM user_skills us WHERE
\* us.user_id = :user_id, on another connection.  `observed` is the latest
\* read since the writer's last step.
Read(u) ==
    /\ observed' = [user |-> u, rows |-> userSkills[u]]
    /\ UNCHANGED <<userSkills, tx, lastSave, matchVars, threadVars, rm, gapVars>>

InitSave ==
    /\ userSkills \in [Users -> SUBSET SkillIds]
    /\ tx = NoTx /\ lastSave = NoSave /\ observed = NoRead
    /\ MatchIdle /\ ThreadsIdle /\ RoadmapIdle /\ GapIdle

NextSave ==
    \/ \E u \in Users, m \in MatchLists : BeginSave(u, m)
    \/ DeleteOld
    \/ InsertNext
    \/ StatementFails
    \/ Commit
    \/ \E u \in Users : Read(u)

SpecSave == InitSave /\ [][NextSave]_vars

\* the complete sets of user u that the write-through may show right now
CompleteSets(u) ==
    IF tx.pc # "idle" /\ tx.user = u THEN {tx.prior, Range(tx.matches)}
    ELSE IF lastSave.user = u THEN {lastSave.prior, lastSave.new}
    ELSE {userSkills[u]}

\* C2: save_user_skills is atomic per user.  While a save of user u is in
\* flight the stored set of u is still the prior one; once it has finished
\* the stored set is the new one if it committed and the prior one if a
\* statement failed; and a concurrent reader sees one of the two.
C2_SaveAtomic ==
    /\ tx.pc # "idle" => userSkills[tx.user] = tx.prior
    /\ (tx.pc = "idle" /\ lastSave.result = "committed") =>
           userSkills[lastSave.user] = lastSave.new
    /\ (tx.pc = "idle" /\ lastSave.result = "rolledback") =>
           userSkills[lastSave.user] = lastSave.prior
    /\ observed.user # 0 => observed.rows \in CompleteSets(observed.user)

\* C2 witness: a statement failed after the delete and one insert had been
\* done; the user's prior two-skill set is what is stored and what a reader
\* then sees, and the new list was a different one.
C2_Witness ==
    /\ tx.pc = "idle"
    /\ lastSave.result = "rolledback"
    /\ Cardinality(lastSave.prior) = 2
    /\ Cardinality(lastSave.new) = 1
    /\ observed.user = lastSave.user
    /\ observed.rows = lastSave.prior

-----------------------------------------------------------------------------
(* generate_roadmap and create_single_roadmap: generate_roadmap.py 54-95 *)

MaxPlanned == 3   \* missing_skills[:3]
MaxMissing == 4   \* longest list of missing skills tried

\* lists of (name, importance) as compute_gap hands them over
MissingLists ==
    {[i \in 1..n |-> <<SkillNames[i], n + 1 - i>>] : n \in 0..MaxMissing}

\* Mutant: create_single_roadmap without its try/except: the exception
\* leaves the worker and is stored in the future
CreateSingleRoadmapNoCatch(skill_name, llmOk) ==
    IF llmOk THEN [kind |-> "plan", skill |-> skill_name]
    ELSE [kind |-> "exception", skill |-> skill_name]

\* create_single_roadmap: the chain's result, or the error payload built in
\* the except branch
CreateSingleRoadmap(skill_name, llmOk) ==
    IF llmOk THEN [kind |-> "plan", skill |-> skill_name]
    ELSE [kind |-> "error", skill |-> skill_name]

Pending == [kind |-> "pending", skill |-> ""]

\* lines 83-91: slice the list, build the pool, submit one task per skill.
\* ThreadPoolExecutor(max_workers=0) raises ValueError.
StartRoadmap(missing) ==
    /\ rm.pc = "idle"
    /\ LET planned == SubSeq(missing, 1, Min(MaxPlanned, Len(missing)))
       IN  rm' = IF Len(planned) = 0
                 THEN [rm EXCEPT !.pc = "raised", !.missing = missing,
                                 !.error = "ValueError"]
                 ELSE [rm EXCEPT !.pc = "running", !.missing = missing,
                                 !.planned = planned,
                                 !.futures = [i \in DOMAIN planned |-> Pending]]
    /\ UNCHANGED <<matchVars, threadVars, saveVars, gapVars>>

\* A worker thread runs create_single_roadmap to its end
WorkerFinishes(i, llmOk) ==
    /\ rm.pc = "running"
    /\ i \in DOMAIN rm.futures
    /\ rm.futures[i].kind = "pending"
    /\ rm' = [rm EXCEPT !.futures[i] = CreateSingleRoadmap(rm.planned[i][1], llmOk)]
    /\ UNCHANGED <<matchVars, threadVars, saveVars, gapVars>>

Collected(i) == \E k \in DOMAIN rm.roadmaps : rm.roadmaps[k].skill = rm.planned[i][1]

\* as_completed yields a finished future; future.result() is appended, or
\* re-raises what the worker raised
Collect(i) ==
    /\ rm.pc = "running"
    /\ i \in DOMAIN rm.futures
    /\ rm.futures[i].kind # "pending"
    /\ ~Collected(i)
    /\ rm' = IF rm.futures[i].kind = "exception"
             THEN [rm EXCEPT !.pc = "raised", !.error = "Exception"]
             ELSE [rm EXCEPT !.roadmaps = Append(rm.roadmaps, rm.futures[i])]
    /\ UNCHANGED <<matchVars, threadVars, saveVars, gapVars>>

\* line 95: every future has been collected
ReturnRoadmaps ==
    /\ rm.pc = "running"
    /\ \A i \in DOMAIN rm.futures : Collected(i)
    /\ rm' = [rm EXCEPT !.pc = "returned"]
    /\ UNCHANGED <<matchVars, threadVars, saveVars, gapVars>>

InitRoadmap == RoadmapIdle /\ MatchIdle /\ ThreadsIdle /\ SaveIdle /\ GapIdle

NextRoadmap ==
    \/ \E m \in MissingLists : StartRoadmap(m)
    \/ \E i \in 1..MaxPlanned, ok \in BOOLEAN : WorkerFinishes(i, ok)
    \/ \E i \in 1..MaxPlanned : Collect(i)
    \/ ReturnRoadmaps

SpecRoadmap == InitRoadmap /\ [][NextRoadmap]_vars

\* the skills a call has to plan: the first three of the list at most
PlannedSkills(missing) == {missing[i][1] : i \in 1..Min(MaxPlanned, Len(missing))}

\* one entry per planned skill, each a plan or an error payload
OneEntryPerPlannedSkill ==
    /\ Len(rm.roadmaps) = Cardinality(PlannedSkills(rm.missing))
    /\ \A sk \in PlannedSkills(rm.missing) :
           \E k \in DOMAIN rm.roadmaps :
               /\ rm.roadmaps[k].skill = sk
               /\ rm.roadmaps[k].kind \in {"plan", "error"}

\* C4, as stated: for every list of missing skills and every mix of
\* successes and failures the call returns, with one entry per planned
\* skill; it never ends by raising.
C4_EveryCallReturnsOneEntryPerSkill ==
    /\ rm.pc # "raised"
    /\ rm.pc = "returned" => OneEntryPerPlannedSkill

\* C4, amended: for every list of missing skills that is not empty and every
\* mix of successes and failures, the call never raises and returns one
\* entry per planned skill (the first three at most), each a plan or an
\* error payload, in any order.
C4_FailuresIsolated ==
    Len(rm.missing) > 0 =>
        /\ rm.pc # "raised"
        /\ rm.pc = "returned" => OneEntryPerPlannedSkill

\* C4 witness: four skills were missing, three were planned, the first
\* sub-call failed and was collected last, and the call returned all three.
C4_Witness ==
    /\ rm.pc = "returned"
    /\ Len(rm.missing) = 4
    /\ Len(rm.roadmaps) = 3
    /\ rm.roadmaps[3] = [kind |-> "error", skill |-> rm.planned[1][1]]
    /\ rm.roadmaps[1].kind = "plan"
    /\ rm.roadmaps[2].kind = "plan"

-----------------------------------------------------------------------------
(* compute_gap: lines 110-131 *)

MaxJobs == 2      \* rows of the jobs table
MaxTopN == 2      \* largest top_n tried

Titles == {<<"E">>, <<"e", "n">>, <<"q">>}
RolePatterns == {<<>>, <<"e">>, <<"N">>, <<"e", "n">>, <<"_">>, <<"%">>}

\* str.lower() and SQL LOWER(), character by character
LowerChar(ch) == IF ch = "E" THEN "e" ELSE IF ch = "N" THEN "n" ELSE ch
Lower(t) == [i \in DOMAIN t |-> LowerChar(t[i])]

\* SQL: s LIKE p, where % stands for any run of characters and _ for one
RECURSIVE Like(_, _)
Like(str, p) ==
    IF p = <<>> THEN str = <<>>
    ELSE IF Head(p) = "%"
         THEN Like(str, Tail(p)) \/ (str # <<>> /\ Like(Tail(str), p))
    ELSE IF Head(p) = "_"
         THEN str # <<>> /\ Like(Tail(str), Tail(p))
    ELSE str # <<>> /\ Head(str) = Head(p) /\ Like(Tail(str), Tail(p))

\* f"%{role_pattern.lower()}%"
LikePattern(role_pattern) == <<"%">> \o Lower(role_pattern) \o <<"%">>

\* the joined rows of one skill that pass the WHERE clause: its postings
MatchingJobs(sid, role_pattern) ==
    {j \in DOMAIN jobs :
        <<j, sid>> \in jobSkills /\ Like(Lower(jobs[j]), LikePattern(role_pattern))}

\* GROUP BY skill: the groups that have a row, with COUNT(js.job_id)
GapGroups(user_id, role_pattern) ==
    {<<skillsTable[i].skill_id, skillsTable[i].name,
       Cardinality(MatchingJobs(skillsTable[i].skill_id, role_pattern))>> :
        i \in {k \in DOMAIN skillsTable :
                 /\ skillsTable[k].skill_id \notin userSkills[user_id]
                 /\ MatchingJobs(skillsTable[k].skill_id, role_pattern) # {}}}

\* ORDER BY freq DESC: any order of the groups in which freq never increases
\* (SQL leaves the order of equal keys open)
OrderedByFreq(groups) ==
    {r \in [1..Cardinality(groups) -> groups] :
        /\ \A i, j \in DOMAIN r : i # j => r[i] # r[j]
        /\ \A i, j \in DOMAIN r : i < j => r[i][3] >= r[j][3]}

\* One call of compute_gap: the query, LIMIT :limit, the rows as tuples
ComputeGap ==
    /\ gapResult.status = "none"
    /\ \E r \in OrderedByFreq(GapGroups(gapCall.user_id, gapCall.role_pattern)) :
           gapResult' = [status |-> "returned",
                         rows |-> SubSeq(r, 1, Min(gapCall.top_n, Len(r)))]
    /\ UNCHANGED <<matchVars, threadVars, saveVars, rm, jobs, jobSkills, gapCall>>

InitGap ==
    /\ skillsTable = ScenarioVocabulary
    /\ cache = EmptyCache /\ fetches = 0 /\ outcome = NotCalled
    /\ call = Args(<<>>, DefaultTopK, DefaultThreshold,
                   <<DefaultChunkSize, DefaultChunkOverlap>>)
    /\ jobs \in SeqsUpTo(Titles, MaxJobs)
    /\ jobSkills \in SUBSET ((DOMAIN jobs) \X {1, 2})
    /\ userSkills \in [Users -> SUBSET {1, 2}]
    /\ tx = NoTx /\ lastSave = NoSave /\ observed = NoRead
    /\ \E u \in Users, rp \in RolePatterns, n \in 0..MaxTopN :
           gapCall = [user_id |-> u, role_pattern |-> rp, top_n |-> n]
    /\ gapResult = NoGapResult
    /\ ThreadsIdle /\ RoadmapIdle

NextGap == ComputeGap

SpecGap == InitGap /\ [][NextGap]_vars

\* p occurs in s as a run of consecutive characters
Contains(str, p) ==
    \E i \in 0..(Len(str) - Len(p)) : SubSeq(str, i + 1, i + Len(p)) = p

\* postings linked to skill sid whose title contains the pattern, case aside
PostingsFor(sid, role_pattern) ==
    {j \in DOMAIN jobs :
        <<j, sid>> \in jobSkills /\ Contains(Lower(jobs[j]), Lower(role_pattern))}

GapEntriesRight ==
    LET r == gapResult.rows
    IN  /\ Len(r) <= gapCall.top_n
        /\ \A k \in DOMAIN r :
               /\ PostingsFor(r[k][1], gapCall.role_pattern) # {}
               /\ r[k][1] \notin userSkills[gapCall.user_id]
               /\ r[k][3] = Cardinality(PostingsFor(r[k][1], gapCall.role_pattern))
        /\ \A i, j \in DOMAIN r : i < j => r[i][3] >= r[j][3]

\* C10: compute_gap returns at most top_n entries, each a skill the user
\* lacks that is linked to a posting whose title contains role_pattern (case
\* aside), with the number of such postings as its frequency, in order of
\* non-increasing frequency; an empty result is a returned value.
C10_GapEntries ==
    gapResult.status # "none" =>
        /\ gapResult.status = "returned"
        /\ GapEntriesRight

\* The same for a role_pattern that holds neither % nor _
GapEntriesRightWithoutWildcards ==
    (gapResult.status # "none"
        /\ \A i \in DOMAIN gapCall.role_pattern :
               gapCall.role_pattern[i] \notin {"%", "_"}) =>
        /\ gapResult.status = "returned"
        /\ GapEntriesRight

-----------------------------------------------------------------------------
(* Properties of the matching call *)

Called == outcome.status # "none"

CeilDiv(a, b) == (a + b - 1) \div b

\* words of a text, counted as the places where a word starts
WordCount(t) ==
    Cardinality({i \in DOMAIN t : t[i] # " " /\ (i = 1 \/ t[i - 1] = " ")})

UsableVector(emb) == emb.kind = "vec" /\ Len(emb.val) = Dim

\* the scores of vector e against the chunks that give a defined score
DefinedScores(chunks, e) ==
    {Cos(Embed(chunks[k]), e).v : k \in {j \in DOMAIN chunks : ~Cos(Embed(chunks[j]), e).nan}}

SetMax(S) == CHOOSE m \in S : \A x \in S : x <= m

\* rows of the loaded vocabulary that have a chunk scoring at least thr
Qualifying(rows, chunks, thr) ==
    {i \in DOMAIN rows :
        /\ UsableVector(rows[i].emb_array)
        /\ \E x \in DefinedScores(chunks, rows[i].emb_array.val) : x >= thr}

\* the chunks of the call's text, for the properties
CallChunks ==
    IF call.chunk_size > call.chunk_overlap
    THEN Chunks(Split(call.text), call.chunk_size, call.chunk_size - call.chunk_overlap)
    ELSE <<>>

C5_BadOverlapRejected ==
    (Called /\ call.chunk_overlap >= call.chunk_size
        /\ WordCount(call.text) > 0 /\ Len(cache.rows) > 0) =>
        /\ outcome.status = "raised"
        /\ ~outcome.chunked
        /\ ~outcome.embedded

\* C6: a skill whose embedding has zero norm is never in the returned list,
\* and no returned score is NaN.
C6_ZeroNormNeverMatched ==
    outcome.status = "returned" =>
        \A k \in DOMAIN outcome.value :
            /\ ~outcome.value[k][3].nan
            /\ \A i \in DOMAIN cache.rows :
                   cache.rows[i].skill_id = outcome.value[k][1] =>
                       /\ UsableVector(cache.rows[i].emb_array)
                       /\ Dot(cache.rows[i].emb_array.val,
                              cache.rows[i].emb_array.val) # 0

\* C6 witness: a vocabulary with a zero-norm skill and a good one, threshold 0,
\* and the call returned the good one.
C6_Witness ==
    /\ outcome.status = "returned"
    /\ call.sim_threshold = 0
    /\ Len(outcome.value) >= 1
    /\ \E i \in DOMAIN cache.rows :
           /\ UsableVector(cache.rows[i].emb_array)
           /\ Dot(cache.rows[i].emb_array.val, cache.rows[i].emb_array.val) = 0

Malformed(e) == e.kind \in {"text", "object"}

\* C7: a row whose stored embedding is not a JSON array of floats is loaded
\* with no embedding and left out of matching; the load and the matching
\* call that follows complete.
C7_MalformedDegradesToNoEmbedding ==
    (Called /\ Len(CallChunks) > 0) =>
        /\ outcome.status = "returned"
        /\ \A i \in DOMAIN cache.rows :
               Malformed(cache.rows[i].embedding) =>
                   /\ cache.rows[i].emb_array = NoneArr
                   /\ \A k \in DOMAIN outcome.value :
                          outcome.value[k][1] # cache.rows[i].skill_id

\* C8: a failure of one chunk or one skill leaves the others alone: the call
\* returns, and every skill with a usable embedding whose best defined score
\* over the chunks reaches the threshold is returned with that score (top_k
\* permitting).
C8_FailuresIsolated ==
    (Called /\ Len(CallChunks) > 0 /\ Len(cache.rows) > 0
        /\ call.top_k >= Len(cache.rows)) =>
        /\ outcome.status = "returned"
        /\ \A i \in Qualifying(cache.rows, CallChunks, call.sim_threshold) :
               \E k \in DOMAIN outcome.value :
                   /\ outcome.value[k][1] = cache.rows[i].skill_id
                   /\ outcome.value[k][3] =
                          Num(SetMax(DefinedScores(CallChunks, cache.rows[i].emb_array.val)))

\* C9: with 0 <= overlap < chunk_size a text of w words gives ceil(w / step)
\* chunks, and a text with no word gives no chunk and no match.
C9_ChunkCount ==
    (Called /\ 0 <= call.chunk_overlap /\ call.chunk_overlap < call.chunk_size) =>
        LET w == WordCount(call.text)
            step == call.chunk_size - call.chunk_overlap
        IN  /\ outcome.status = "returned"
            /\ outcome.chunked => Len(outcome.chunks) = CeilDiv(w, step)
            /\ (w > 0 /\ Len(cache.rows) > 0) =>
                   (outcome.chunked /\ Len(outcome.chunks) = CeilDiv(w, step))
            /\ w = 0 => (Len(outcome.chunks) = 0 /\ outcome.value = <<>>)

\* C9 witness: overlapping windows, three chunks, the last one partial
C9_Witness ==
    /\ outcome.status = "returned"
    /\ call.chunk_overlap > 0
    /\ call.chunk_overlap < call.chunk_size
    /\ Len(outcome.chunks) = 3
    /\ WordCount(call.text) = 3

-----------------------------------------------------------------------------
(* The vocabulary over a process lifetime: get_skills_with_embeddings       *)
(* (lines 24-47) in the server process, seed_skills (ingest_jobs_and_skills *)
(* 34-67) run as the ETL script in another process, and a server restart.   *)

MaxSkillId == 5   \* the re-seeds stop once the ids have grown this far

\* embedder.encode of a skill name: the same name always gets the same vector
SkillVec(name) == IF name = "python" THEN <<1, 0>> ELSE <<0, 1>>

\* the skill lists a CSV can hold: names deduplicated, in the file's order
CsvSkills == {<<"python">>, <<"java">>, <<"python", "java">>, <<"java", "python">>}

ReseedDocs == {<<"a">>, <<"b">>, <<"a", " ", "b">>}

\* the largest skill_id handed out so far: the table's AUTO_INCREMENT counter
\* stands at the next one, and DELETE FROM skills does not reset it
LastId(table) ==
    IF table = <<>> THEN 0
    ELSE CHOOSE m \in {table[i].skill_id : i \in DOMAIN table} :
             \A i \in DOMAIN table : table[i].skill_id <= m

\* seed_skills, lines 57-65: DELETE FROM skills, then one INSERT per skill
\* of the CSV, each row getting the next id
Reseeded(table, skills) ==
    [i \in DOMAIN skills |->
        [skill_id |-> LastId(table) + i, name |-> skills[i],
         embedding |-> Stored(SkillVec(skills[i]))]]

\* One run of seed_skills with a CSV that has skills (an empty one returns
\* at line 49): the transaction commits the new rows.  Nothing in it
\* reaches the server process or its cache.
SeedSkills(skills) ==
    /\ Len(skills) > 0
    /\ LastId(skillsTable) + Len(skills) <= MaxSkillId
    /\ skillsTable' = Reseeded(skillsTable, skills)
    /\ UNCHANGED <<cache, fetches, call, outcome, threadVars, saveVars, rm, gapVars>>

\* One more call of extract_skills_from_text in the running server
MatchCall(t) ==
    /\ call' = Args(t, DefaultTopK, DefaultThreshold,
                    <<DefaultChunkSize, DefaultChunkOverlap>>)
    /\ cache' = CacheAfterCall(cache, skillsTable, fetches + 1)
    /\ fetches' = IF cache.full THEN fetches ELSE fetches + 1
    /\ outcome' = ExtractSkillsFromText(cache'.rows, call')
    /\ UNCHANGED <<skillsTable, threadVars, saveVars, rm, gapVars>>

\* The server process is restarted: the module is imported afresh and the
\* lru_cache is empty again
Restart ==
    /\ cache.full
    /\ cache' = EmptyCache
    /\ fetches' = 0
    /\ outcome' = NotCalled
    /\ UNCHANGED <<skillsTable, call, threadVars, saveVars, rm, gapVars>>

InitLifetime ==
    /\ \E skills \in CsvSkills : skillsTable = Reseeded(<<>>, skills)
    /\ cache = EmptyCache
    /\ fetches = 0
    /\ call = Args(<<>>, DefaultTopK, DefaultThreshold,
                   <<DefaultChunkSize, DefaultChunkOverlap>>)
    /\ outcome = NotCalled
    /\ ThreadsIdle /\ SaveIdle /\ RoadmapIdle /\ GapIdle

NextLifetime ==
    \/ \E t \in ReseedDocs : MatchCall(t)
    \/ \E skills \in CsvSkills : SeedSkills(skills)
    \/ Restart

SpecLifetime == InitLifetime /\ [][NextLifetime]_vars

TableIds == {skillsTable[i].skill_id : i \in DOMAIN skillsTable}

\* C11: in a process the vocabulary stays the one of its first load until it
\* is invalidated by a restart or a re-seed, and a matching call made after
\* a re-seed has completed uses the re-seeded skills: every skill id it
\* returns is in the current skills table.
C11_RefreshedByReseed ==
    [][/\ (cache.full /\ skillsTable' = skillsTable /\ cache'.full) => cache' = cache
       /\ (\E t \in ReseedDocs : MatchCall(t)) =>
              /\ outcome'.status = "returned"
              /\ \A k \in DOMAIN outcome'.value : outcome'.value[k][1] \in TableIds']_vars

\* The part of C11 that the memoization does give: between restarts the
\* cached vocabulary never changes, whatever happens to the table
CacheKeptUntilRestart ==
    [][(cache.full /\ cache'.full) => cache' = cache]_vars

=============================================================================
